---- MODULE Spec2Model ----
(***************************************************************************)
(* Model of the outbound TCP client of deltabridge/aw (src/tcp/client.go). *)
(*                                                                         *)
(* The Client keeps a pool connsByAddr : address -> conn{ch, cancel}       *)
(* guarded by connsByAddrMu.  Send looks the address up (starting a        *)
(* supervisor goroutine with runAndKeepAlive when it is absent and the     *)
(* pool has room) and then races the caller's context against the enqueue  *)
(* into the supervisor's buffered channel.  Each supervisor loops over     *)
(* run: dial, resend the saved last message, then the message loop.        *)
(*                                                                         *)
(* A Send call and the message it carries share one identifier.  A         *)
(* supervisor is identified by its creation rank.  The critical sections   *)
(* under connsByAddrMu are atomic steps.  A Go select with several ready   *)
(* cases is a nondeterministic choice among them.                          *)
(***************************************************************************)
EXTENDS Integers, Sequences, FiniteSets, TLC

\* ---------------------------------------------------------------- bounds
MaxCalls == 2          \* Send calls (and so messages, and supervisors)
MaxDials == 3          \* successful dials (connections) over one behaviour
MaxHandshakes == 1     \* failed handshakes over one behaviour

\* ------------------------------------------------------- client options
MaxConnections == 1    \* ClientOptions.MaxConnections
MaxCapacity == 1       \* ClientOptions.MaxCapacity
MaxDialAttempts == 2   \* ClientOptions.MaxDialAttempts

Addrs == 1..(MaxConnections + 1)
Calls == 1..MaxCalls
Sups == 1..MaxCalls
Nil == 0

\* Places at which write returns an error before the frame is flushed, and
\* places at which it returns an error after the frame has been flushed.
SendErrs == {"encrypting", "marshaling", "flushing"}
RecvErrs == {"unmarshaling", "version", "request-type", "unsupported-type",
             "decrypting", "handling"}

VARIABLES
    opts,             \* Client.opts: the options the client was made with
    connsByAddr,      \* Client.connsByAddr: address -> supervisor (its conn)
    mu,               \* Client.connsByAddrMu: the Send call that holds it, or Nil
    nSups,            \* number of supervisor goroutines started so far
    addrOf,           \* supervisor -> addr captured by its goroutine
    pc,               \* supervisor -> position in runAndKeepAlive/run/dial
    ch,               \* supervisor -> contents of its buffered channel
    ctxDone,          \* supervisor -> its cancel func has been called
    lastMessageSent,  \* supervisor -> lastMessageSent (Nil when unset)
    msg,              \* supervisor -> msg of the exchange in progress
    deadline,         \* supervisor -> state of the deadline timer
    numDialAttempts,  \* supervisor -> numDialAttempts of the running dial
    sock,             \* supervisor -> open net.Conn (Nil when none)
    err,              \* supervisor -> place of the last error of write
    call,             \* Send call -> position / result
    callAddr,         \* Send call -> addr argument
    callConn,         \* Send call -> supervisor whose conn it obtained
    callCtx,          \* Send call -> state of ctx while the call runs
    nextCall,         \* next Send call to be made
    wire,             \* supervisor -> frames flushed to the remote
    enq,              \* supervisor -> messages in the order of enqueue
    acks,             \* supervisor -> messages whose response was handled
    nDials,           \* connections established so far
    nShakes           \* handshakes failed so far

poolVars == <<opts, connsByAddr, mu, nSups>>
supVars == <<addrOf, pc, ch, ctxDone, lastMessageSent, msg, deadline,
             numDialAttempts, sock, err>>
callVars == <<call, callAddr, callConn, callCtx, nextCall>>
histVars == <<wire, enq, acks, nDials, nShakes>>
vars == <<opts, connsByAddr, mu, nSups, addrOf, pc, ch, ctxDone, lastMessageSent, msg,
          deadline, numDialAttempts, sock, err, call, callAddr, callConn,
          callCtx, nextCall, wire, enq, acks, nDials, nShakes>>

\* NewClient, lines 116-118: the options are kept as given.
NewClient(maxDialAttempts) == [MaxDialAttempts |-> maxDialAttempts]

\* NewClient: an empty pool, no goroutine.
Init ==
    /\ opts = NewClient(MaxDialAttempts)
    /\ connsByAddr = <<>>
    /\ mu = Nil
    /\ nSups = 0
    /\ addrOf = [s \in Sups |-> Nil]
    /\ pc = [s \in Sups |-> "none"]
    /\ ch = [s \in Sups |-> <<>>]
    /\ ctxDone = [s \in Sups |-> FALSE]
    /\ lastMessageSent = [s \in Sups |-> Nil]
    /\ msg = [s \in Sups |-> Nil]
    /\ deadline = [s \in Sups |-> "none"]
    /\ numDialAttempts = [s \in Sups |-> 0]
    /\ sock = [s \in Sups |-> Nil]
    /\ err = [s \in Sups |-> "nil"]
    /\ call = [m \in Calls |-> "new"]
    /\ callAddr = [m \in Calls |-> Nil]
    /\ callConn = [m \in Calls |-> Nil]
    /\ callCtx = [m \in Calls |-> "live"]
    /\ nextCall = 1
    /\ wire = [s \in Sups |-> <<>>]
    /\ enq = [s \in Sups |-> <<>>]
    /\ acks = [s \in Sups |-> <<>>]
    /\ nDials = 0
    /\ nShakes = 0

\* ------------------------------------------------------------- the pool
\* len(client.connsByAddr)
PoolLen == Cardinality(DOMAIN connsByAddr)

\* delete(client.connsByAddr, addr)
Delete(pool, a) == [b \in (DOMAIN pool) \ {a} |-> pool[b]]

\* client.connsByAddr[addr] = c
Insert(pool, a, s) == [b \in (DOMAIN pool) \cup {a} |-> IF b = a THEN s ELSE pool[b]]

\* Send, line 150: the ok of the lookup conn, ok := client.connsByAddr[addr].
Has(a) == a \in DOMAIN connsByAddr

\* A check that lets one address too many in.
PoolFullOffByOne == PoolLen > MaxConnections

\* The check of Send that rejects a new address.
PoolFull == PoolLen >= MaxConnections

\* A Close that removes the entry and forgets to cancel it.
CloseCancelsNothing(a) == {}

\* The body of Close under the mutex, lines 179-182: the supervisors whose
\* cancel is called.
CloseCancels(a) == IF Has(a) THEN {connsByAddr[a]} ELSE {}

\* A Close that cancels the entry and forgets to delete it.
ClosePoolKeeps(a) == connsByAddr

\* The body of Close under the mutex, lines 179-182: the pool afterwards.
ClosePool(a) == IF Has(a) THEN Delete(connsByAddr, a) ELSE connsByAddr

\* The context of a caller is cancelled, before the call (the next call to
\* be made) or while the call waits in its select.
CtxCancel(m) ==
    /\ callCtx[m] = "live"
    /\ \/ m = nextCall /\ call[m] = "new"
       \/ call[m] = "select"
    /\ callCtx' = [callCtx EXCEPT ![m] = IF call[m] = "new" THEN "pre" ELSE "done"]
    /\ UNCHANGED <<poolVars, supVars, histVars, call, callAddr, callConn, nextCall>>

\* A supervisor that takes over the channel of the last supervisor started
\* for its address.
MakeChReused(a) ==
    LET old == {t \in 1..nSups : addrOf[t] = a}
    IN IF old = {} THEN <<>> ELSE ch[CHOOSE t \in old : \A u \in old : u <= t]

\* runAndKeepAlive, line 206: ch := make(chan wire.Message, MaxCapacity), a
\* new and empty channel.
MakeCh(a) == <<>>

\* A Send that keeps connsByAddrMu while it waits in its select.
UnlockDeferred(m) == m

\* Send, lines 153 and 162: connsByAddrMu.Unlock() before the return of the
\* capacity error and before the select; the mutex is free afterwards.
Unlock(m) == Nil

\* Send, lines 142-162: the lookup under the mutex.  Addresses are opaque, so
\* they are numbered in the order of their first use.  A new address is
\* rejected when the pool is full; otherwise runAndKeepAlive starts the
\* supervisor s = nSups + 1 with an empty channel, a live context and a
\* running deadline timer, and its conn is stored in the pool.
Send(m, a) ==
    /\ m = nextCall
    /\ mu = Nil
    /\ mu' = Unlock(m)
    /\ opts' = opts
    /\ a <= Cardinality({callAddr[n] : n \in 1..(m - 1)}) + 1
    /\ call[m] = "new"
    /\ nextCall' = nextCall + 1
    /\ callAddr' = [callAddr EXCEPT ![m] = a]
    /\ IF Has(a)
       THEN /\ call' = [call EXCEPT ![m] = "select"]
            /\ callConn' = [callConn EXCEPT ![m] = connsByAddr[a]]
            /\ UNCHANGED <<callCtx, connsByAddr, nSups, supVars>>
       ELSE IF PoolFull
       THEN /\ call' = [call EXCEPT ![m] = "capacity"]
            /\ callCtx' = [callCtx EXCEPT ![m] = "returned"]
            /\ UNCHANGED <<callConn, connsByAddr, nSups, supVars>>
       ELSE LET s == nSups + 1 IN
            /\ nSups' = s
            /\ connsByAddr' = Insert(connsByAddr, a, s)
            /\ addrOf' = [addrOf EXCEPT ![s] = a]
            /\ pc' = [pc EXCEPT ![s] = "keepalive"]
            /\ deadline' = [deadline EXCEPT ![s] = "running"]
            /\ call' = [call EXCEPT ![m] = "select"]
            /\ ch' = [ch EXCEPT ![s] = MakeCh(a)]
            /\ callConn' = [callConn EXCEPT ![m] = s]
            /\ UNCHANGED <<callCtx, ctxDone, lastMessageSent, msg, numDialAttempts, sock, err>>
    /\ UNCHANGED histVars

\* A channel that takes a message whatever it holds.
CanEnqueueUnbounded(s) == TRUE

\* The send conn.ch <- msg is ready when the channel, made with capacity
\* MaxCapacity (line 206), has room.
CanEnqueue(s) == Len(ch[s]) < MaxCapacity

\* Send, lines 164-169: the select between ctx.Done() and the enqueue.
\* Each case is taken only when it is ready; when both are, either is.
SendSelect(m, case) ==
    /\ call[m] = "select"
    /\ LET s == callConn[m] IN
       \/ /\ case = "ctx"
          /\ callCtx[m] # "live"
          /\ call' = [call EXCEPT ![m] = "cancelled"]
          /\ UNCHANGED <<ch, enq>>
       \/ /\ case = "ch"
          /\ CanEnqueue(s)
          /\ ch' = [ch EXCEPT ![s] = Append(@, m)]
          /\ enq' = [enq EXCEPT ![s] = Append(@, m)]
          /\ call' = [call EXCEPT ![m] = "ok"]
    /\ callCtx' = [callCtx EXCEPT ![m] = "returned"]
    /\ UNCHANGED <<poolVars, addrOf, pc, ctxDone, lastMessageSent, msg, deadline,
                   numDialAttempts, sock, err, callAddr, callConn,
                   nextCall, wire, acks, nDials, nShakes>>

\* Close, lines 174-183: Lock, the body, and the deferred Unlock.
Close(a) ==
    /\ mu = Nil
    /\ mu' = Nil
    /\ opts' = opts
    /\ ctxDone' = [s \in DOMAIN ctxDone |-> ctxDone[s] \/ s \in CloseCancels(a)]
    /\ connsByAddr' = ClosePool(a)
    /\ UNCHANGED <<nSups, addrOf, pc, ch, lastMessageSent, msg, deadline,
                   numDialAttempts, sock, err, callVars, histVars>>

\* CloseAll, lines 186-197: Lock, the body, and the deferred Unlock.
CloseAll ==
    /\ mu = Nil
    /\ mu' = Nil
    /\ opts' = opts
    /\ ctxDone' = [s \in DOMAIN ctxDone |-> ctxDone[s] \/ (\E a \in DOMAIN connsByAddr : connsByAddr[a] = s)]
    /\ connsByAddr' = <<>>
    /\ UNCHANGED <<nSups, addrOf, pc, ch, lastMessageSent, msg, deadline,
                   numDialAttempts, sock, err, callVars, histVars>>

\* ------------------------------------------------------- the supervisor
\* A goroutine that goes back to its outer loop instead of returning.
RetireResumes(s) ==
    /\ pc[s] = "retire"
    /\ pc' = [pc EXCEPT ![s] = "keepalive"]
    /\ UNCHANGED <<poolVars, addrOf, ch, ctxDone, lastMessageSent, msg, deadline,
                   numDialAttempts, sock, err, callVars, histVars>>

\* The deferred client.Close(addr) of the goroutine, line 210: the same body
\* as Close, run with the addr the goroutine captured.  The goroutine then
\* returns and its locals are gone: lastMessageSent, and the timer deadline,
\* which no longer runs; a timer whose expiry was read stays so.
Retire(s) ==
    /\ pc[s] = "retire"
    /\ mu = Nil
    /\ mu' = Nil
    /\ opts' = opts
    /\ pc' = [pc EXCEPT ![s] = "done"]
    /\ ctxDone' = [t \in DOMAIN ctxDone |-> ctxDone[t] \/ t \in CloseCancels(addrOf[s])]
    /\ connsByAddr' = ClosePool(addrOf[s])
    /\ lastMessageSent' = [lastMessageSent EXCEPT ![s] = Nil]
    /\ deadline' = [deadline EXCEPT ![s] = IF @ = "read" THEN "read" ELSE "none"]
    /\ UNCHANGED <<nSups, addrOf, ch, msg, numDialAttempts, sock, err,
                   callVars, histVars>>

\* The timer runs: armed by NewTimer ("running") or by the Reset that
\* followed a drain of its expiry ("running-drained").
Armed(s) == deadline[s] \in {"running", "running-drained"}

\* The timer deadline fires: a value is put in deadline.C.
TimerFire(s) ==
    /\ pc[s] \notin {"none", "done"}
    /\ Armed(s)
    /\ deadline' = [deadline EXCEPT ![s] = "fired"]
    /\ UNCHANGED <<poolVars, addrOf, pc, ch, ctxDone, lastMessageSent, msg,
                   numDialAttempts, sock, err, callVars, histVars>>

\* runAndKeepAlive, lines 229-252: the select of the outer loop.  The
\* default case is taken only when neither channel is ready; it calls run,
\* which starts with dial (numDialAttempts := 0) and whose return assigns
\* err anew.  The other cases return from the goroutine.
KeepAlive(s, case) ==
    /\ pc[s] = "keepalive"
    /\ \/ /\ case = "ctx"
          /\ ctxDone[s]
          /\ pc' = [pc EXCEPT ![s] = "retire"]
          /\ UNCHANGED <<deadline, numDialAttempts>>
       \/ /\ case = "deadline"
          /\ deadline[s] = "fired"
          /\ deadline' = [deadline EXCEPT ![s] = "read"]
          /\ pc' = [pc EXCEPT ![s] = "retire"]
          /\ UNCHANGED numDialAttempts
       \/ /\ case = "default"
          /\ ~ctxDone[s]
          /\ deadline[s] # "fired"
          /\ pc' = [pc EXCEPT ![s] = "dial"]
          /\ numDialAttempts' = [numDialAttempts EXCEPT ![s] = 0]
          /\ UNCHANGED deadline
    /\ err' = [err EXCEPT ![s] = "nil"]
    /\ UNCHANGED <<poolVars, addrOf, ch, ctxDone, lastMessageSent, msg, sock,
                   callVars, histVars>>

\* A budget that counts as spent only once it is exceeded.
SpentWhenExceeded(numAttempts, maxDialAttempts) == numAttempts > maxDialAttempts

\* dial, line 455: numDialAttempts >= client.opts.MaxDialAttempts.
Spent(numAttempts, maxDialAttempts) == numAttempts >= maxDialAttempts

\* dial, line 455: the budget check made after a refused dial, on the number
\* of attempts made so far.
BudgetSpent(n) == Spent(n, opts.MaxDialAttempts)

\* A run that goes to the message loop without the resend.
AfterDialSkipsResend(s) == "loop"

\* run, line 281: after dial the saved last message, if any, is written
\* before the message loop.
AfterDial(s) == IF lastMessageSent[s] # Nil THEN "resend" ELSE "loop"

\* dial, lines 429-485: one iteration of the loop.  dialCtx is done when the
\* supervisor was cancelled or when TimeToLive has passed since dial began;
\* then dial returns an error, run returns (nil, err) and the goroutine
\* returns.  Otherwise the attempt is counted and the dial is refused, the
\* handshake fails or yields no session, or the connection is established.
\* numDialAttempts is local to dial: it is 0 outside of it.
Dial(s, result) ==
    /\ pc[s] = "dial"
    /\ IF ctxDone[s] \/ result = "dial-ctx"
       THEN /\ result = "dial-ctx"
            /\ pc' = [pc EXCEPT ![s] = "retire"]
            /\ lastMessageSent' = [lastMessageSent EXCEPT ![s] = Nil]
            /\ numDialAttempts' = [numDialAttempts EXCEPT ![s] = 0]
            /\ UNCHANGED <<sock, nDials, nShakes>>
       ELSE CASE result = "refused" ->
                      /\ IF BudgetSpent(numDialAttempts[s] + 1)
                         THEN /\ pc' = [pc EXCEPT ![s] = "retire"]
                              /\ lastMessageSent' = [lastMessageSent EXCEPT ![s] = Nil]
                              /\ numDialAttempts' = [numDialAttempts EXCEPT ![s] = 0]
                         ELSE /\ numDialAttempts' = [numDialAttempts EXCEPT ![s] = @ + 1]
                              /\ UNCHANGED <<pc, lastMessageSent>>
                      /\ UNCHANGED <<sock, nDials, nShakes>>
                 [] result \in {"handshake", "nil-session"} ->
                      /\ nShakes < MaxHandshakes
                      /\ nShakes' = nShakes + 1
                      /\ numDialAttempts' = [numDialAttempts EXCEPT ![s] = @ + 1]
                      /\ UNCHANGED <<pc, lastMessageSent, sock, nDials>>
                 [] result = "ok" ->
                      /\ nDials < MaxDials
                      /\ nDials' = nDials + 1
                      /\ sock' = [sock EXCEPT ![s] = nDials']
                      /\ pc' = [pc EXCEPT ![s] = AfterDial(s)]
                      /\ numDialAttempts' = [numDialAttempts EXCEPT ![s] = 0]
                      /\ UNCHANGED <<lastMessageSent, nShakes>>
    /\ UNCHANGED <<poolVars, addrOf, ch, ctxDone, msg, deadline, err, callVars,
                   wire, enq, acks>>

DialResults == {"dial-ctx", "refused", "handshake", "nil-session", "ok"}

\* A loop that returns the lastMessage it was called with.
LoopSavesStale(s, m) == lastMessageSent[s]

\* A loop that returns the message saved earlier, if there is one.
LoopSavesKept(s, m) == IF lastMessageSent[s] # Nil THEN lastMessageSent[s] ELSE m

\* run, lines 325 and 334: the loop returns (&msg, nil) on an error of
\* SetDeadline or write; line 289: the resend returns (lastMessage, nil).
LoopSaves(s, m) == m
ResendSaves(s) == lastMessageSent[s]

\* The version and the type of the message a caller passes to Send.  Send
\* takes any wire.Message; the calls alternate between two types.
MsgVersion(m) == "V1"
MsgType(m) == IF m % 2 = 1 THEN "Ping" ELSE "Push"

\* A write that puts the type of the expected response in the frame.
FrameRetyped(s, m) ==
    [m |-> m, c |-> sock[s], version |-> MsgVersion(m), type |-> MsgType(m) \o "Ack"]

\* write, lines 348-358: encrypt the body, marshal and flush the frame.  The
\* frame is on the wire when Flush has returned nil; it carries the version
\* and the type of msg as they were passed, and the body of message m as the
\* session encrypted it, on connection c.
Frame(s, m) ==
    [m |-> m, c |-> sock[s], version |-> MsgVersion(m), type |-> MsgType(m)]

\* A resend that re-arms the deadline timer as a dequeue does.
ResendRearms(s, result) ==
    /\ pc[s] = "resend"
    /\ err' = [err EXCEPT ![s] = IF result = "flushed" THEN @ ELSE result]
    /\ IF result = "flushed"
       THEN /\ wire' = [wire EXCEPT ![s] = Append(@, Frame(s, lastMessageSent[s]))]
            /\ pc' = [pc EXCEPT ![s] = "resend-ack"]
            /\ UNCHANGED sock
       ELSE /\ pc' = [pc EXCEPT ![s] = "keepalive"]
            /\ sock' = [sock EXCEPT ![s] = Nil]
            /\ UNCHANGED wire
    /\ lastMessageSent' = [lastMessageSent EXCEPT ![s] = ResendSaves(s)]
    /\ deadline' = [deadline EXCEPT ![s] = "running"]
    /\ UNCHANGED <<poolVars, addrOf, ch, ctxDone, msg,
                   numDialAttempts, callVars, enq, acks, nDials, nShakes>>

\* run, lines 281-291: the saved last message is written first on the new
\* connection.  An error of write is consumed: run returns (lastMessage, nil)
\* and its deferred conn.Close closes the socket.
Resend(s, result) ==
    /\ pc[s] = "resend"
    /\ err' = [err EXCEPT ![s] = IF result = "flushed" THEN @ ELSE result]
    /\ IF result = "flushed"
       THEN /\ wire' = [wire EXCEPT ![s] = Append(@, Frame(s, lastMessageSent[s]))]
            /\ pc' = [pc EXCEPT ![s] = "resend-ack"]
            /\ UNCHANGED sock
       ELSE /\ pc' = [pc EXCEPT ![s] = "keepalive"]
            /\ sock' = [sock EXCEPT ![s] = Nil]
            /\ UNCHANGED wire
    /\ lastMessageSent' = [lastMessageSent EXCEPT ![s] = ResendSaves(s)]
    /\ UNCHANGED <<poolVars, addrOf, ch, ctxDone, msg, deadline,
                   numDialAttempts, callVars, enq, acks, nDials, nShakes>>

\* deadline.Stop(), the drain when Stop reports false, and Reset, lines
\* 315-318.  Stop reports false when the timer no longer runs; the drain
\* then receives from deadline.C, and a timer whose value was already read
\* leaves it blocked.
StopDrains(s) == ~Armed(s)
DrainBlocks(s) == deadline[s] = "read"

\* A Reset of the expired timer without the drain: the value stays in
\* deadline.C.
ResetWithoutDrain(s) == IF StopDrains(s) THEN "fired" ELSE "running"

\* The timer after Stop, the drain and Reset of lines 315-318: it runs and
\* deadline.C is empty.
Rearm(s) == IF StopDrains(s) THEN "running-drained" ELSE "running"

\* A receive that leaves the message in the channel.
RestKeeps(q) == q

\* The channel after the receive msg, ok := <-ch of line 302.
Rest(q) == Tail(q)

\* run, lines 292-337: the select of the message loop.  On a dequeue the
\* deadline timer is re-armed, the socket deadline is set and the frame is
\* written; an error of SetDeadline or of write is consumed: run returns
\* (&msg, nil).
Run(s, case, result) ==
    /\ pc[s] = "loop"
    /\ \/ /\ case = "ctx"
          /\ result = "killing"
          /\ ctxDone[s]
          /\ pc' = [pc EXCEPT ![s] = "retire"]
          /\ lastMessageSent' = [lastMessageSent EXCEPT ![s] = Nil]
          /\ sock' = [sock EXCEPT ![s] = Nil]
          /\ UNCHANGED <<ch, msg, deadline, err, wire>>
       \/ /\ case = "deadline"
          /\ result = "killing"
          /\ deadline[s] = "fired"
          /\ deadline' = [deadline EXCEPT ![s] = "read"]
          /\ pc' = [pc EXCEPT ![s] = "retire"]
          /\ lastMessageSent' = [lastMessageSent EXCEPT ![s] = Nil]
          /\ sock' = [sock EXCEPT ![s] = Nil]
          /\ UNCHANGED <<ch, msg, err, wire>>
       \/ /\ case = "ch"
          /\ result \in {"set-deadline", "flushed"} \cup SendErrs
          /\ ch[s] # <<>>
          /\ ch' = [ch EXCEPT ![s] = Rest(@)]
          /\ IF DrainBlocks(s)
             THEN /\ pc' = [pc EXCEPT ![s] = "drain"]
                  /\ msg' = [msg EXCEPT ![s] = Head(ch[s])]
                  /\ UNCHANGED <<deadline, lastMessageSent, sock, err, wire>>
             ELSE /\ deadline' = [deadline EXCEPT ![s] = Rearm(s)]
                  /\ err' = [err EXCEPT ![s] = IF result = "flushed" THEN @ ELSE result]
                  /\ IF result = "flushed"
                     THEN /\ msg' = [msg EXCEPT ![s] = Head(ch[s])]
                          /\ wire' = [wire EXCEPT ![s] = Append(@, Frame(s, Head(ch[s])))]
                          /\ pc' = [pc EXCEPT ![s] = "ack"]
                          /\ UNCHANGED <<lastMessageSent, sock>>
                     ELSE /\ lastMessageSent' = [lastMessageSent EXCEPT ![s] = LoopSaves(s, Head(ch[s]))]
                          /\ pc' = [pc EXCEPT ![s] = "keepalive"]
                          /\ sock' = [sock EXCEPT ![s] = Nil]
                          /\ UNCHANGED <<msg, wire>>
    /\ UNCHANGED <<poolVars, addrOf, ctxDone, numDialAttempts, callVars, enq,
                   acks, nDials, nShakes>>

\* write, lines 365-413: read the response, check its version and type,
\* decrypt it and hand it to the listener.  Every error is returned to run,
\* which consumes it: the resend path returns (lastMessage, nil), the loop
\* returns (&msg, nil).  On nil the response was handled by the listener
\* and the message loop goes on.
Ack(s, result) ==
    /\ pc[s] \in {"resend-ack", "ack"}
    /\ err' = [err EXCEPT ![s] = result]
    /\ msg' = [msg EXCEPT ![s] = Nil]
    /\ IF result = "nil"
       THEN /\ pc' = [pc EXCEPT ![s] = "loop"]
            /\ acks' = [acks EXCEPT ![s] = Append(@, wire[s][Len(wire[s])].m)]
            /\ UNCHANGED <<lastMessageSent, sock>>
       ELSE /\ pc' = [pc EXCEPT ![s] = "keepalive"]
            /\ lastMessageSent' = [lastMessageSent EXCEPT ![s] =
                                     IF pc[s] = "ack" THEN LoopSaves(s, msg[s])
                                                      ELSE ResendSaves(s)]
            /\ sock' = [sock EXCEPT ![s] = Nil]
            /\ UNCHANGED acks
    /\ UNCHANGED <<poolVars, addrOf, ch, ctxDone, deadline, numDialAttempts,
                   callVars, wire, enq, nDials, nShakes>>

Next ==
    \/ \E m \in Calls : CtxCancel(m)
    \/ \E m \in Calls, a \in Addrs : Send(m, a)
    \/ \E m \in Calls, case \in {"ctx", "ch"} : SendSelect(m, case)
    \/ \E a \in Addrs : Close(a)
    \/ CloseAll
    \/ \E s \in Sups : Retire(s)
    \/ \E s \in Sups : TimerFire(s)
    \/ \E s \in Sups, case \in {"ctx", "deadline", "default"} : KeepAlive(s, case)
    \/ \E s \in Sups, result \in DialResults : Dial(s, result)
    \/ \E s \in Sups, result \in SendErrs \cup {"flushed"} : Resend(s, result)
    \/ \E s \in Sups, case \in {"ctx", "deadline", "ch"},
          result \in {"killing", "set-deadline", "flushed"} \cup SendErrs : Run(s, case, result)
    \/ \E s \in Sups, result \in RecvErrs \cup {"nil"} : Ack(s, result)

Spec == Init /\ [][Next]_vars

\* The scheduling the code guarantees.  A supervisor goroutine that can take
\* a step takes one: the deferred Close waits only for connsByAddrMu, whose
\* critical sections are finite; the selects return when a case is ready;
\* dial bounds every attempt by innerDialCtx and dialCtx; write flushes, and
\* in the message loop the read of the response returns, because the socket
\* deadline set at line 322 bounds it.  The read of the response to a resend
\* has no such bound (no SetDeadline precedes the write of line 287, and
\* write takes no context), and nothing makes a caller call Send, Close or
\* CloseAll, so neither is fair.
Fairness ==
    \A s \in Sups :
        /\ WF_vars(Retire(s))
        /\ WF_vars(\E case \in {"ctx", "deadline", "default"} : KeepAlive(s, case))
        /\ WF_vars(\E result \in DialResults : Dial(s, result))
        /\ WF_vars(\E result \in SendErrs \cup {"flushed"} : Resend(s, result))
        /\ WF_vars(\E case \in {"ctx", "deadline", "ch"},
                      result \in {"killing", "set-deadline", "flushed"} \cup SendErrs :
                          Run(s, case, result))
        /\ WF_vars(pc[s] = "ack" /\ \E result \in RecvErrs \cup {"nil"} : Ack(s, result))

FairSpec == Spec /\ Fairness

\* The client with a reachable remote that answers every request with the
\* matching ack: no Close and no CloseAll, every dial and handshake succeeds,
\* no write fails and the idle deadline does not expire.
IdealNext ==
    \/ \E m \in Calls : CtxCancel(m)
    \/ \E m \in Calls, a \in Addrs : Send(m, a)
    \/ \E m \in Calls, case \in {"ctx", "ch"} : SendSelect(m, case)
    \/ \E s \in Sups : KeepAlive(s, "default")
    \/ \E s \in Sups : Dial(s, "ok")
    \/ \E s \in Sups : Run(s, "ch", "flushed")
    \/ \E s \in Sups : Ack(s, "nil")

\* The supervisor goroutine is scheduled, the remote accepts the connection
\* and answers.
IdealFairness ==
    \A s \in Sups :
        /\ WF_vars(KeepAlive(s, "default"))
        /\ WF_vars(Dial(s, "ok"))
        /\ WF_vars(Run(s, "ch", "flushed"))
        /\ WF_vars(Ack(s, "nil"))

IdealSpec == Init /\ [][IdealNext]_vars /\ IdealFairness

\* The client under contention for connsByAddrMu: one more Send call than in
\* Spec, so that a Send can be made while another waits on a full queue, with
\* Close, CloseAll and cancelled supervisors that retire; dials succeed and
\* exchanges are acked.
MoreCalls == 1..(MaxCalls + 1)

MutexInit ==
    /\ opts = NewClient(MaxDialAttempts)
    /\ connsByAddr = <<>>
    /\ mu = Nil
    /\ nSups = 0
    /\ addrOf = [s \in MoreCalls |-> Nil]
    /\ pc = [s \in MoreCalls |-> "none"]
    /\ ch = [s \in MoreCalls |-> <<>>]
    /\ ctxDone = [s \in MoreCalls |-> FALSE]
    /\ lastMessageSent = [s \in MoreCalls |-> Nil]
    /\ msg = [s \in MoreCalls |-> Nil]
    /\ deadline = [s \in MoreCalls |-> "none"]
    /\ numDialAttempts = [s \in MoreCalls |-> 0]
    /\ sock = [s \in MoreCalls |-> Nil]
    /\ err = [s \in MoreCalls |-> "nil"]
    /\ call = [m \in MoreCalls |-> "new"]
    /\ callAddr = [m \in MoreCalls |-> Nil]
    /\ callConn = [m \in MoreCalls |-> Nil]
    /\ callCtx = [m \in MoreCalls |-> "live"]
    /\ nextCall = 1
    /\ wire = [s \in MoreCalls |-> <<>>]
    /\ enq = [s \in MoreCalls |-> <<>>]
    /\ acks = [s \in MoreCalls |-> <<>>]
    /\ nDials = 0
    /\ nShakes = 0

MutexNext ==
    \/ \E m \in MoreCalls : CtxCancel(m)
    \/ \E m \in MoreCalls, a \in Addrs : Send(m, a)
    \/ \E m \in MoreCalls, case \in {"ctx", "ch"} : SendSelect(m, case)
    \/ \E a \in Addrs : Close(a)
    \/ CloseAll
    \/ \E s \in MoreCalls : Retire(s)
    \/ \E s \in MoreCalls, case \in {"ctx", "default"} : KeepAlive(s, case)
    \/ \E s \in MoreCalls, result \in {"dial-ctx", "ok"} : Dial(s, result)
    \/ \E s \in MoreCalls, r \in {<<"ctx", "killing">>, <<"ch", "flushed">>} : Run(s, r[1], r[2])
    \/ \E s \in MoreCalls : Ack(s, "nil")

MutexSpec == MutexInit /\ [][MutexNext]_vars

\* The client whose deadline timers expire only during a re-dial cycle:
\* after run has returned a saved message to the outer loop, while the
\* supervisor dials again or resends that message.
RedialFire(s) ==
    /\ pc[s] \in {"dial", "resend", "resend-ack"}
    /\ lastMessageSent[s] # Nil
    /\ TimerFire(s)

RedialNext ==
    \/ \E m \in Calls : CtxCancel(m)
    \/ \E m \in Calls, a \in Addrs : Send(m, a)
    \/ \E m \in Calls, case \in {"ctx", "ch"} : SendSelect(m, case)
    \/ \E a \in Addrs : Close(a)
    \/ CloseAll
    \/ \E s \in Sups : Retire(s)
    \/ \E s \in Sups : RedialFire(s)
    \/ \E s \in Sups, case \in {"ctx", "deadline", "default"} : KeepAlive(s, case)
    \/ \E s \in Sups, result \in DialResults : Dial(s, result)
    \/ \E s \in Sups, result \in SendErrs \cup {"flushed"} : Resend(s, result)
    \/ \E s \in Sups, case \in {"ctx", "deadline", "ch"},
          result \in {"killing", "set-deadline", "flushed"} \cup SendErrs : Run(s, case, result)
    \/ \E s \in Sups, result \in RecvErrs \cup {"nil"} : Ack(s, result)

RedialSpec == Init /\ [][RedialNext]_vars

\* The client made with a dial budget of 0 or of 1, and everything it can do.
SmallBudgets == {0, 1}

BudgetInit ==
    /\ opts \in {NewClient(maxDialAttempts) : maxDialAttempts \in SmallBudgets}
    /\ connsByAddr = <<>>
    /\ mu = Nil
    /\ nSups = 0
    /\ addrOf = [s \in Sups |-> Nil]
    /\ pc = [s \in Sups |-> "none"]
    /\ ch = [s \in Sups |-> <<>>]
    /\ ctxDone = [s \in Sups |-> FALSE]
    /\ lastMessageSent = [s \in Sups |-> Nil]
    /\ msg = [s \in Sups |-> Nil]
    /\ deadline = [s \in Sups |-> "none"]
    /\ numDialAttempts = [s \in Sups |-> 0]
    /\ sock = [s \in Sups |-> Nil]
    /\ err = [s \in Sups |-> "nil"]
    /\ call = [m \in Calls |-> "new"]
    /\ callAddr = [m \in Calls |-> Nil]
    /\ callConn = [m \in Calls |-> Nil]
    /\ callCtx = [m \in Calls |-> "live"]
    /\ nextCall = 1
    /\ wire = [s \in Sups |-> <<>>]
    /\ enq = [s \in Sups |-> <<>>]
    /\ acks = [s \in Sups |-> <<>>]
    /\ nDials = 0
    /\ nShakes = 0

BudgetSpec == BudgetInit /\ [][Next]_vars

\* ================================================================ claims
\* The supervisors started so far, and the live ones: those whose cancel
\* has not been called.
Started == 1..nSups
Live(a) == {s \in Started : addrOf[s] = a /\ ~ctxDone[s]}

\* C1: in every reachable state the pool map holds at most MaxConnections
\* entries.
C1_PoolBounded == PoolLen <= MaxConnections

\* The pool is full again after a supervisor retired by itself and a second
\* one was started.
C1_Witness ==
    /\ PoolLen = MaxConnections
    /\ nSups = 2
    /\ pc[1] = "done"
    /\ ~ctxDone[2]

\* C2: a Send to an absent address while the pool is full returns the
\* capacity error and changes neither the pool, nor the supervisors, nor any
\* queue; a Send to a present address is never rejected and takes the conn
\* of the pool; a Send to an absent address while the pool has room is
\* admitted; and every step that cancels a pooled supervisor (Close,
\* CloseAll, a deferred Close) leaves room for a new address.
C2_Admission ==
    [][/\ \A m \in Calls : (call[m] = "new" /\ call'[m] # "new") =>
            LET a == callAddr'[m] IN
            /\ (~Has(a) /\ PoolLen >= MaxConnections) =>
                  /\ call'[m] = "capacity"
                  /\ connsByAddr' = connsByAddr
                  /\ nSups' = nSups
                  /\ pc' = pc
                  /\ ch' = ch
                  /\ enq' = enq
            /\ Has(a) =>
                  /\ call'[m] = "select"
                  /\ callConn'[m] = connsByAddr[a]
                  /\ nSups' = nSups
            /\ (~Has(a) /\ PoolLen < MaxConnections) =>
                  /\ call'[m] = "select"
                  /\ a \in DOMAIN connsByAddr'
                  /\ callConn'[m] = connsByAddr'[a]
       /\ (\E a \in DOMAIN connsByAddr : ctxDone'[connsByAddr[a]]) =>
             PoolLen' < MaxConnections
       /\ \A m \in Calls : call[m] = "capacity" =>
             \A s \in Sups : \A i \in 1..Len(enq[s]) : enq[s][i] # m
      ]_vars

\* A Send was rejected for capacity while the pool is full.
C2_Witness ==
    \E m \in Calls :
        /\ call[m] = "capacity"
        /\ PoolLen = MaxConnections
        /\ ~Has(callAddr[m])

\* At most one live supervisor per address; the pool maps an address to a
\* live supervisor started for that address; a Send holds the conn of a
\* supervisor of its address, so two Sends to one address that hold live
\* conns hold the same one.
C3_Inv ==
    /\ \A a \in Addrs : Cardinality(Live(a)) <= 1
    /\ \A a \in DOMAIN connsByAddr :
          /\ connsByAddr[a] \in Started
          /\ addrOf[connsByAddr[a]] = a
          /\ ~ctxDone[connsByAddr[a]]
    /\ \A m \in Calls : callConn[m] # Nil => addrOf[callConn[m]] = callAddr[m]
    /\ \A m, n \in Calls :
          (/\ callConn[m] # Nil
           /\ callConn[n] # Nil
           /\ callAddr[m] = callAddr[n]
           /\ ~ctxDone[callConn[m]]
           /\ ~ctxDone[callConn[n]]) => callConn[m] = callConn[n]

\* C3: at every instant an address has at most one live supervisor, the
\* one of its pool entry, and the Sends to that address share its queue; a
\* supervisor is started, with an empty queue, only for an address that
\* has no entry, and becomes the entry of that address.
C3_OneSupervisorPerAddr ==
    /\ []C3_Inv
    /\ [][nSups' # nSups =>
            /\ nSups' = nSups + 1
            /\ addrOf'[nSups'] \notin DOMAIN connsByAddr
            /\ connsByAddr'[addrOf'[nSups']] = nSups'
            /\ ch'[nSups'] = <<>>
         ]_vars

\* Two Sends to the same address have both enqueued into the queue of the
\* one supervisor of that address.
C3_Witness ==
    /\ nSups = 1
    /\ call[1] = "ok"
    /\ call[2] = "ok"
    /\ callAddr[1] = callAddr[2]
    /\ Len(enq[1]) = 2

\* C4: once Close has cancelled a supervisor, that supervisor writes no new
\* frame.
C4_NoFrameAfterClose ==
    [][\A s \in Sups : ctxDone[s] => wire'[s] = wire[s]]_vars

\* C5: a Send whose context was already cancelled when it was called
\* returns the cancellation error and enqueues nothing.
C5_CancelledSendNotEnqueued ==
    [][\A m \in Calls :
          (callCtx[m] = "pre" /\ call'[m] # call[m]) =>
             /\ call'[m] \in {"select", "cancelled"}
             /\ enq' = enq
             /\ ch' = ch
      ]_vars

\* The number of times message m was put in a queue.
Enqueued(m) ==
    Cardinality({<<s, i>> \in Sups \X (1..MaxCalls) : i <= Len(enq[s]) /\ enq[s][i] = m})

\* The queue of s is what was enqueued and not yet dequeued.
IsSuffix(q, h) ==
    /\ Len(q) <= Len(h)
    /\ \A i \in 1..Len(q) : q[i] = h[Len(h) - Len(q) + i]

\* No queue holds more than MaxCapacity messages; a queue holds what was
\* enqueued and not yet dequeued; a message is enqueued once when its Send
\* returned nil and never otherwise.
C6_Inv ==
    /\ \A s \in Sups : Len(ch[s]) <= MaxCapacity
    /\ \A s \in Sups : IsSuffix(ch[s], enq[s])
    /\ \A m \in Calls : Enqueued(m) = IF call[m] = "ok" THEN 1 ELSE 0

Written(s) == [i \in 1..Len(wire[s]) |-> wire[s][i].m]
Writes(s, m) == Cardinality({i \in 1..Len(wire[s]) : wire[s][i].m = m})

\* C7 as stated: no message is written three or more times.
C7_AtMostTwice == \A s \in Sups : \A m \in Calls : Writes(s, m) <= 2

\* C7 amended: a supervisor writes only messages that a Send put in its
\* queue (so only messages whose Send returned nil) and that it has
\* dequeued; a message is written at most once per connection; and every
\* write of a message after its first is the first frame of a later
\* connection and directly follows the previous write of that message.
C7_WrittenOnlyAsResend ==
    \A s \in Sups : \A i \in 1..Len(wire[s]) :
        LET f == wire[s][i] IN
        /\ \E k \in 1..(Len(enq[s]) - Len(ch[s])) : enq[s][k] = f.m
        /\ call[f.m] = "ok"
        /\ \A j \in 1..(i - 1) : wire[s][j].m = f.m =>
              /\ wire[s][j].c < f.c
              /\ wire[s][i - 1].m = f.m
        /\ \A t \in Sups \ {s} : Writes(t, f.m) = 0

\* One message was written on three connections.
C7_Witness == \E s \in Sups : \E m \in Calls : Writes(s, m) >= 3

\* q without the repetitions of adjacent elements.
RECURSIVE Collapse(_)
Collapse(q) ==
    IF Len(q) <= 1 THEN q
    ELSE IF q[1] = q[2] THEN Collapse(Tail(q))
    ELSE <<q[1]>> \o Collapse(Tail(q))

IsPrefix(p, q) ==
    /\ Len(p) <= Len(q)
    /\ \A i \in 1..Len(p) : p[i] = q[i]

FatalErrs == {"version", "request-type", "unsupported-type", "handling"}
TransientErrs == {"set-deadline", "marshaling", "flushing", "unmarshaling", "decrypting"}

\* Supervisor s takes a step that ends an exchange with error class E.
Fails(s, E) ==
    /\ pc[s] \in {"resend", "resend-ack", "loop", "ack"}
    /\ pc'[s] # pc[s]
    /\ err'[s] \in E

\* C9: an exchange that fails with a fatal error retires the supervisor;
\* the message of the exchange is not saved for a resend.
C9_FatalRetires ==
    [][\A s \in Sups : Fails(s, FatalErrs) =>
          /\ pc'[s] = "retire"
          /\ lastMessageSent'[s] = Nil
      ]_vars

\* The message of the exchange that the step of s ends.
Exchanged(s) ==
    CASE pc[s] = "loop" -> Head(ch[s])
      [] pc[s] = "ack" -> msg[s]
      [] OTHER -> lastMessageSent[s]

\* On a transient error the socket is closed, run returns to the outer loop
\* with the message of the exchange saved, and the queue keeps what it held
\* (less the message just dequeued).
C10_Saved(s) ==
    Fails(s, TransientErrs) =>
        /\ pc'[s] = "keepalive"
        /\ sock'[s] = Nil
        /\ lastMessageSent'[s] = Exchanged(s)
        /\ lastMessageSent'[s] # Nil
        /\ ch'[s] = IF pc[s] = "loop" THEN Tail(ch[s]) ELSE ch[s]

\* From the outer loop to the end of the resend nothing is dequeued and the
\* saved message is kept; a dial that succeeds goes to the resend; and the
\* resend writes the saved message as the first frame of the new connection.
C10_ResentFirst(s) ==
    /\ (pc[s] \in {"keepalive", "dial", "resend", "resend-ack"} /\ pc'[s] # "retire") =>
          /\ IsPrefix(ch[s], ch'[s])
          /\ lastMessageSent'[s] = lastMessageSent[s]
    /\ (pc[s] = "dial" /\ pc'[s] \notin {"dial", "retire"}) =>
          /\ sock'[s] # Nil
          /\ \A i \in 1..Len(wire[s]) : wire[s][i].c # sock'[s]
          /\ pc'[s] = IF lastMessageSent[s] # Nil THEN "resend" ELSE "loop"
    /\ (pc[s] = "resend" /\ wire'[s] # wire[s]) =>
          /\ wire'[s] = Append(wire[s], Frame(s, lastMessageSent[s]))
          /\ \A i \in 1..Len(wire[s]) : wire[s][i].c # sock[s]
    /\ (pc[s] = "loop" /\ wire'[s] # wire[s]) => lastMessageSent[s] = Nil \/
          \E i \in 1..Len(wire[s]) : wire[s][i] = Frame(s, lastMessageSent[s])

\* C10 as stated: after a transient error the supervisor does not retire
\* but returns to dialing (unless it was cancelled).
C10_Redials(s) ==
    (/\ pc[s] = "keepalive"
     /\ err[s] \in TransientErrs
     /\ ~ctxDone[s]
     /\ pc'[s] # pc[s]) => pc'[s] = "dial"

C10_RedialsUnlessObserved(s) ==
    (/\ pc[s] = "keepalive"
     /\ err[s] \in TransientErrs
     /\ pc'[s] # pc[s]) =>
        /\ pc'[s] \in {"dial", "retire"}
        /\ pc'[s] = "retire" => (ctxDone[s] \/ deadline[s] = "fired")
        /\ pc'[s] = "dial" => (~ctxDone[s] /\ deadline[s] # "fired")

C11_RetiresOnlyOwnEntry ==
    [][\A s \in Sups : (pc[s] = "retire" /\ pc'[s] = "done") =>
          /\ \A t \in Sups \ {s} : ctxDone'[t] = ctxDone[t]
          /\ \A a \in DOMAIN connsByAddr : connsByAddr[a] # s =>
                /\ a \in DOMAIN connsByAddr'
                /\ connsByAddr'[a] = connsByAddr[a]
      ]_vars

\* The supervisor whose conn the pool holds under some address.
InPool(s) == \E a \in DOMAIN connsByAddr : connsByAddr[a] = s

\* The supervisor has decided to return from its goroutine, or has returned.
Retiring(s) == pc[s] \in {"retire", "done"}

\* C12: the conn of a started supervisor is in the pool exactly when the
\* supervisor was not cancelled and has not decided to retire; so no Send
\* takes from the pool the conn of a cancelled or retiring supervisor.
C12_PoolIffNotRetired ==
    /\ [](\A s \in Started : InPool(s) <=> (~ctxDone[s] /\ ~Retiring(s)))
    /\ [][\A m \in Calls :
            (call[m] = "new" /\ call'[m] = "select" /\ nSups' = nSups) =>
               /\ ~ctxDone[callConn'[m]]
               /\ ~Retiring(callConn'[m])
         ]_vars

\* The supervisor goroutines that were started and have not yet returned.
Running == {s \in Started : pc[s] # "done"}

\* C13: at most MaxConnections supervisor goroutines run at any instant, and
\* so at most MaxConnections sockets are open.
C13_RunningBounded ==
    /\ Cardinality(Running) <= MaxConnections
    /\ Cardinality({s \in Sups : sock[s] # Nil}) <= MaxConnections

\* Supervisor s returned because it read the expiry of its idle deadline.
IdleRetired(s) == pc[s] = "done" /\ deadline[s] = "read"

\* C14: a supervisor that reads the expiry of its idle deadline, in the
\* outer loop or in the message loop, retires, and its retirement leaves no
\* entry under its address; no retired supervisor is in the pool; a Send to
\* the address of an idle-retired supervisor that finds no entry and room
\* in the pool starts a new supervisor with no saved message, an empty
\* queue and nothing written; and no supervisor ever writes a message that
\* was put in the queue of another.
C14_IdleRetiresFreshStart ==
    /\ [](\A s \in Started : pc[s] = "done" => ~InPool(s))
    /\ [](\A s \in Started : \A t \in Started \ {s} :
            \A i \in 1..Len(wire[t]) : \A k \in 1..Len(enq[s]) :
                wire[t][i].m # enq[s][k])
    /\ [][\A s \in Sups :
            /\ (deadline[s] = "fired" /\ deadline'[s] = "read") =>
                  /\ pc[s] \in {"keepalive", "loop"}
                  /\ pc'[s] = "retire"
            /\ (pc[s] = "retire" /\ pc'[s] = "done") =>
                  addrOf[s] \notin DOMAIN connsByAddr'
            /\ IdleRetired(s) =>
                  \A m \in Calls :
                     (/\ call[m] = "new"
                      /\ call'[m] # "new"
                      /\ callAddr'[m] = addrOf[s]
                      /\ ~Has(addrOf[s])
                      /\ PoolLen < MaxConnections) =>
                         /\ nSups' = nSups + 1
                         /\ call'[m] = "select"
                         /\ callConn'[m] = nSups'
                         /\ connsByAddr'[addrOf[s]] = nSups'
                         /\ pc'[nSups'] = "keepalive"
                         /\ lastMessageSent'[nSups'] = Nil
                         /\ ch'[nSups'] = <<>>
                         /\ enq'[nSups'] = <<>>
                         /\ wire'[nSups'] = <<>>
         ]_vars

\* A supervisor retired on its idle deadline with a message left in its
\* queue; the next Send to its address started a new supervisor, which has
\* written the message of that Send.
C14_Witness ==
    /\ nSups = 2
    /\ IdleRetired(1)
    /\ ch[1] # <<>>
    /\ addrOf[2] = addrOf[1]
    /\ Len(wire[2]) = 1
    /\ wire[2][1].m = 2

\* The number of attempts one call of dial may make.
DialBudget == IF MaxDialAttempts < 1 THEN 1 ELSE MaxDialAttempts

\* C15: a dial that has made as many attempts as its budget allows, failed
\* handshakes included, makes no further attempt: its next step leaves the
\* dial loop for the retirement of the supervisor.
C15_DialBudget ==
    [][\A s \in Sups :
          (/\ pc[s] = "dial"
           /\ numDialAttempts[s] >= DialBudget
           /\ <<pc[s], numDialAttempts[s]>>' # <<pc[s], numDialAttempts[s]>>) =>
              /\ pc'[s] = "retire"
              /\ nDials' = nDials
              /\ nShakes' = nShakes
      ]_vars

\* C17: a supervisor whose cancel was called eventually retires, whatever
\* it was doing, also when the remote never answers the exchange in
\* progress.
C17_CancelledRetires ==
    \A s \in Sups : (ctxDone[s] /\ pc[s] # "none") ~> Retiring(s)

\* After retiring a supervisor does nothing but return: it does not dial,
\* dequeue or write, and its socket is closed.
C18_Terminal(s) ==
    Retiring(s) =>
        /\ Retiring(s)'
        /\ sock[s] = Nil
        /\ sock'[s] = Nil
        /\ numDialAttempts'[s] = numDialAttempts[s]
        /\ wire'[s] = wire[s]
        /\ acks'[s] = acks[s]
        /\ IsPrefix(ch[s], ch'[s])

\* C18: a supervisor that has retired stays retired and does nothing more;
\* no supervisor stays forever before its deferred Close (again and again
\* none is waiting there, and a supervisor waits there once), so every
\* self-removal completes; and once a supervisor has returned the pool holds
\* no entry that refers to it.
C18_RetiredIsTerminal ==
    /\ [][\A s \in Sups : C18_Terminal(s)]_vars
    /\ [](\A s \in Sups : pc[s] = "done" => ~InPool(s))
    /\ []<>(\A s \in Sups : pc[s] # "retire")

\* A supervisor has returned with a message left in its queue and a frame
\* written, and is not in the pool.
C18_Witness ==
    \E s \in Sups :
        /\ pc[s] = "done"
        /\ ~InPool(s)
        /\ ch[s] # <<>>
        /\ wire[s] # <<>>

\* With the remote answering, every frame carries the version and the type
\* of its message as passed to Send, no message is written twice, the frames
\* of a supervisor follow the order of enqueue, and the responses handled
\* follow the order of the frames.
C16_Inv ==
    \A s \in Sups :
        /\ \A i \in 1..Len(wire[s]) :
              /\ wire[s][i].version = MsgVersion(wire[s][i].m)
              /\ wire[s][i].type = MsgType(wire[s][i].m)
        /\ \A m \in Calls : Writes(s, m) <= 1
        /\ IsPrefix(Written(s), enq[s])
        /\ IsPrefix(acks[s], Written(s))

\* Message m was written once by the supervisor of its queue and the
\* response to it was handled by the listener.
Delivered(m) ==
    \E s \in Sups :
        /\ Writes(s, m) = 1
        /\ \E i \in 1..Len(acks[s]) : acks[s][i] = m

Blocked(m) ==
    /\ call[m] = "select"
    /\ callCtx[m] = "live"
    /\ ~CanEnqueue(callConn[m])

\* Every task that wants connsByAddrMu can take it and run its critical
\* section: Close, CloseAll, the deferred Close of a retiring supervisor,
\* and the next Send, to an address other than a.
CanLock(a) ==
    /\ ENABLED CloseAll
    /\ \A b \in Addrs : ENABLED Close(b)
    /\ \A s \in DOMAIN pc : pc[s] = "retire" => ENABLED Retire(s)
    /\ nextCall \in DOMAIN call =>
          \E b \in Addrs \ {a} : ENABLED Send(nextCall, b)

\* C19: connsByAddrMu is free whenever a task waits on an enqueue, on I/O
\* or on a handshake, that is between any two critical sections; so while
\* a Send waits on a full queue, a Send to another address, Close, CloseAll
\* and a self-removal can take the mutex, and no state is a deadlock on it.
C19_MutexNotHeldWhileBlocked ==
    /\ mu = Nil
    /\ \A m \in DOMAIN call : Blocked(m) => CanLock(callAddr[m])

\* A Send waits on the full queue of its address while a later Send, to
\* another address, has gone through its critical section.
C19_Witness ==
    \E m \in DOMAIN call : \E n \in DOMAIN call :
        /\ Blocked(m)
        /\ n > m
        /\ call[n] # "new"
        /\ callAddr[n] # callAddr[m]

\* Supervisor s takes a message out of its queue.
Dequeues(s) == pc[s] = "loop" /\ Len(ch'[s]) < Len(ch[s])

\* C20: on every dequeue the timer is stopped, drained if it had fired, and
\* re-armed: when Stop reports false the value is in deadline.C, so the
\* drain does not block, and afterwards the timer runs with deadline.C
\* empty; an expiry is read only after the timer fired, which it does only
\* while armed, so never on an expiry older than the last dequeue.
C20_TimerDrainedBeforeRearm ==
    /\ [](\A s \in Sups : pc[s] # "drain")
    /\ [][\A s \in Sups :
            /\ Dequeues(s) =>
                  /\ StopDrains(s) => deadline[s] = "fired"
                  /\ deadline'[s] \in {"running", "running-drained"}
                  /\ deadline'[s] = "running-drained" <=> deadline[s] = "fired"
            /\ (deadline'[s] = "fired" /\ deadline[s] # "fired") =>
                  /\ Armed(s)
                  /\ ch'[s] = ch[s]
            /\ (deadline'[s] = "read" /\ deadline[s] # "read") =>
                  /\ deadline[s] = "fired"
                  /\ pc'[s] = "retire"
                  /\ ch'[s] = ch[s]
         ]_vars

\* A supervisor dequeued a message after its timer had fired: the expiry
\* was drained, the timer runs again and the message is being exchanged.
C20_Witness ==
    \E s \in Sups :
        /\ deadline[s] = "running-drained"
        /\ pc[s] = "ack"
        /\ msg[s] # Nil

\* The timer of s is armed when s is created and never again from nothing;
\* a timer that runs is changed, and a timer that does not run is made to
\* run, only by a dequeue; while s dials, resends or exchanges, and when run
\* returns to the outer loop, the only change of the timer is its own
\* expiry.
C21_RearmedOnlyByDequeue(s) ==
    /\ (deadline[s] = "none" /\ deadline'[s] # "none") =>
          /\ pc[s] = "none"
          /\ pc'[s] = "keepalive"
          /\ deadline'[s] = "running"
    /\ (pc[s] = "none" /\ pc'[s] # "none") => deadline'[s] = "running"
    /\ (pc[s] # "none" /\ Armed(s)' /\ deadline'[s] # deadline[s]) => Dequeues(s)
    /\ (pc[s] \in {"keepalive", "dial", "resend", "resend-ack", "ack"}
          /\ pc'[s] # "retire"
          /\ deadline'[s] # deadline[s]) =>
             /\ Armed(s)
             /\ deadline'[s] = "fired"
             /\ pc'[s] = pc[s]
             /\ wire'[s] = wire[s]
             /\ ch'[s] = ch[s]

\* Supervisor s takes a step at a point where it looks at its timer: the
\* select of the outer loop or the select of the message loop.
Observes(s) == pc[s] \in {"keepalive", "loop"} /\ pc'[s] # pc[s]

DialStepped(s) ==
    /\ pc[s] = "dial"
    /\ \/ pc'[s] # "dial"
       \/ numDialAttempts'[s] # numDialAttempts[s]

\* C22: the dial loop run with a budget of 0 behaves as the one run with a
\* budget of 1.  In a client made with either budget, at every step of the
\* loop the budget check of the attempt being made answers the same for 0 and
\* for 1, and the step is the one the outcome of the attempt alone decides:
\* the loop returns an error without a further attempt (dial context done, or
\* dial refused), or it counts the attempt and goes on because the handshake
\* failed, or it returns the connection.  No refused dial is retried.
C22_ZeroActsAsOne ==
    [][\A s \in Sups : DialStepped(s) =>
          /\ opts.MaxDialAttempts \in SmallBudgets
          /\ Spent(numDialAttempts[s] + 1, 0) = Spent(numDialAttempts[s] + 1, 1)
          /\ \/ /\ pc'[s] = "retire"
                /\ nDials' = nDials
                /\ nShakes' = nShakes
             \/ /\ pc'[s] = "dial"
                /\ numDialAttempts'[s] = numDialAttempts[s] + 1
                /\ nShakes' = nShakes + 1
             \/ /\ pc'[s] \in {"resend", "loop"}
                /\ nDials' = nDials + 1
                /\ nShakes' = nShakes]_vars

\* A client made with a budget of 0 whose first attempt failed in the
\* handshake and whose second attempt established the connection.
C22_Witness ==
    /\ opts.MaxDialAttempts = 0
    /\ nShakes = 1
    /\ nDials = 1
    /\ nSups = 1
    /\ pc[1] = "loop"

\* The messages whose exchange completed: the response was received,
\* validated, decrypted and handled by the listener without error.
Acked == UNION {{acks[s][i] : i \in 1..Len(acks[s])} : s \in Sups}

\* Supervisor s writes a frame in this step.
WritesFrame(s) == Len(wire'[s]) = Len(wire[s]) + 1
FrameWritten(s) == wire'[s][Len(wire'[s])]

\* Supervisor s goes back to its outer loop in this step: an exchange failed
\* and run returned a nil error.
ExchangeFails(s) ==
    /\ pc[s] \in {"resend", "resend-ack", "loop", "ack"}
    /\ pc'[s] = "keepalive"

\* The message of the exchange that fails in this step: the one being resent,
\* the one of the frame written last, or the one dequeued in this step.
FailedMessage(s) ==
    CASE pc[s] = "resend" -> lastMessageSent[s]
      [] pc[s] \in {"resend-ack", "ack"} -> wire[s][Len(wire[s])].m
      [] pc[s] = "loop" -> Head(ch[s])

\* C23: a message whose exchange completed is never written to the wire
\* again.  No step writes a frame of a message that is among the exchanged
\* ones; when an exchange fails the saved last message becomes the message
\* of that exchange, it stays so until the resend, and the frame written by
\* the resend is that message's; a supervisor that is started has no saved
\* message, and one that has returned has none either.
C23_ExchangedNeverRewritten ==
    [][\A s \in Sups :
          /\ WritesFrame(s) => FrameWritten(s).m \notin Acked
          /\ ExchangeFails(s) => lastMessageSent'[s] = FailedMessage(s) /\ FailedMessage(s) # Nil
          /\ (pc[s] \in {"keepalive", "dial"} /\ lastMessageSent'[s] # lastMessageSent[s]) =>
                (lastMessageSent'[s] = Nil /\ pc'[s] = "retire")
          /\ (pc[s] = "resend" /\ WritesFrame(s)) => FrameWritten(s).m = lastMessageSent[s]
          /\ (pc[s] # "resend" /\ WritesFrame(s)) => (pc[s] = "loop" /\ FrameWritten(s).m = Head(ch[s]))
          /\ (pc[s] = "none" /\ pc'[s] # "none") => lastMessageSent'[s] = Nil
          /\ pc'[s] = "done" => lastMessageSent'[s] = Nil]_vars

\* Message 1 failed, was resent and exchanged on the second connection;
\* message 2 then failed and was resent on the third: four frames, and the
\* only exchanged message was not written again.
C23_Witness ==
    /\ Len(wire[1]) = 4
    /\ wire[1][1].m = 1 /\ wire[1][2].m = 1
    /\ wire[1][3].m = 2 /\ wire[1][4].m = 2
    /\ wire[1][2].c # wire[1][4].c
    /\ acks[1] = <<1>>
    /\ pc[1] = "resend-ack"

====
